---- MODULE Spec2Model ----
(***************************************************************************)
(* Model of the launch ledger of the token-launch server: the trade        *)
(* verifier (server/launchlab.ts, verifyTradeTransaction) and the routes   *)
(* that read and write a launch record (server/routes.ts).                 *)
(*                                                                         *)
(* Numbers.  Every SOL quantity is an integer count of 0.0001 SOL (one     *)
(* "unit"), so 0.001 SOL is 10 units; chain balances (lamports in the      *)
(* code) are given in the same unit, LAMPORTS_PER_SOL being the unit       *)
(* conversion.  Sequences are 1-based: an index 0 stands for the -1 that   *)
(* findIndex returns when nothing matches.                                 *)
(***************************************************************************)
EXTENDS Integers, Sequences, FiniteSets, TLC

VARIABLES launches, reqs, vcall, qcall, onChainPoolCache, now, pcall

\* the call of a curve function under check
curveVars == <<qcall>>
\* the pool state cache, the clock and the call of fetchOnChainPoolState
cacheVars == <<onChainPoolCache, now, pcall>>

vars == <<launches, reqs, vcall, qcall, onChainPoolCache, now, pcall>>

(***************************************************************************)
(* Bounds of the model.                                                    *)
(***************************************************************************)
\* request slots: handlers that can be in flight or finished in one run
MaxRequests == 2
\* account keys of a generated transaction
MaxKeys == 2
\* top-level instructions of a generated transaction
MaxIx == 1

(***************************************************************************)
(* Addresses.                                                              *)
(***************************************************************************)
W1 == "W1"
W2 == "W2"
M1 == "M1"
M2 == "M2"

\* the associated token account of a wallet for a mint: a derived address
getAssociatedTokenAddressSync(mint, owner) == "ata:" \o mint \o ":" \o owner

\* an address that base58-decodes to a public key
isValidSolanaAddress(a) == a \in {W1, W2, M1, M2}

Abs(x) == IF x < 0 THEN -x ELSE x

(***************************************************************************)
(* Numbers of the curve functions (server/raydium-launchlab.ts).  A        *)
(* JavaScript number is an exact fraction n/d in lowest terms, NaN, or     *)
(* +/-Infinity; rounding of the binary representation and the sign of zero *)
(* are not modelled.                                                       *)
(***************************************************************************)
RECURSIVE GCD(_, _)
GCD(a, b) == IF b = 0 THEN a ELSE GCD(b, a % b)

Rat(n, d) ==
  LET g == GCD(Abs(n), Abs(d))
      sgn == IF d < 0 THEN -1 ELSE 1
  IN [k |-> "fin", n |-> sgn * (n \div g), d |-> sgn * (d \div g)]

Num(i) == Rat(i, 1)
NaN == [k |-> "nan"]
Infinity(sgn) == [k |-> "inf", s |-> sgn]

IsNaN(x) == x.k = "nan"
IsFin(x) == x.k = "fin"
Sign(x) == IF x.k = "inf" THEN x.s ELSE IF x.n > 0 THEN 1 ELSE IF x.n < 0 THEN -1 ELSE 0

Neg(x) ==
  IF IsNaN(x) THEN NaN
  ELSE IF IsFin(x) THEN Rat(-x.n, x.d) ELSE Infinity(-x.s)

\* x + y
Add(x, y) ==
  IF IsNaN(x) \/ IsNaN(y) THEN NaN
  ELSE IF ~IsFin(x) THEN (IF ~IsFin(y) /\ y.s # x.s THEN NaN ELSE x)
  ELSE IF ~IsFin(y) THEN y
  ELSE LET g == GCD(x.d, y.d)
       IN Rat(x.n * (y.d \div g) + y.n * (x.d \div g), x.d * (y.d \div g))

\* x - y
Sub(x, y) == Add(x, Neg(y))

\* x * y
Mul(x, y) ==
  IF IsNaN(x) \/ IsNaN(y) THEN NaN
  ELSE IF ~IsFin(x) \/ ~IsFin(y)
    THEN (IF Sign(x) = 0 \/ Sign(y) = 0 THEN NaN ELSE Infinity(Sign(x) * Sign(y)))
  ELSE LET g1 == GCD(Abs(x.n), y.d)
           g2 == GCD(Abs(y.n), x.d)
       IN Rat((x.n \div g1) * (y.n \div g2), (x.d \div g2) * (y.d \div g1))

\* x / y
Div(x, y) ==
  IF IsNaN(x) \/ IsNaN(y) THEN NaN
  ELSE IF ~IsFin(x)
    THEN (IF ~IsFin(y) THEN NaN
          ELSE Infinity(IF Sign(y) < 0 THEN -x.s ELSE x.s))
  ELSE IF ~IsFin(y) THEN Num(0)
  ELSE IF y.n = 0
    THEN (IF x.n = 0 THEN NaN ELSE Infinity(Sign(x)))
  ELSE Mul(x, Rat(y.d, y.n))

\* x <= y, false when either is NaN
Le(x, y) ==
  IF IsNaN(x) \/ IsNaN(y) THEN FALSE
  ELSE IF ~IsFin(x) THEN (x.s < 0 \/ (~IsFin(y) /\ y.s > 0))
  ELSE IF ~IsFin(y) THEN y.s > 0
  ELSE LET g == GCD(x.d, y.d)
       IN x.n * (y.d \div g) <= y.n * (x.d \div g)

\* x < y
Lt(x, y) == Le(x, y) /\ x # y
\* x >= y
Ge(x, y) == Le(y, x)

MathMin(x, y) == IF IsNaN(x) \/ IsNaN(y) THEN NaN ELSE IF Le(x, y) THEN x ELSE y
MathMax(x, y) == IF IsNaN(x) \/ IsNaN(y) THEN NaN ELSE IF Le(x, y) THEN y ELSE x
MathAbs(x) == IF IsNaN(x) THEN NaN ELSE IF Sign(x) < 0 THEN Neg(x) ELSE x
MathFloor(x) == IF IsFin(x) THEN Num(x.n \div x.d) ELSE x

(***************************************************************************)
(* Math.pow(3, x) and Math.log(y).  Both are given by their values to      *)
(* three decimals on a grid of step 1/4 (3^0 .. 3^1, ln 1/4 .. ln 4) and   *)
(* interpolated linearly between grid points; a power outside [0, 1) is    *)
(* reduced by 3^(x+1) = 3 * 3^x and a logarithm outside [1/4, 4] by        *)
(* ln(4y) = ln 4 + ln y.  Math.log is NaN below 0 and -Infinity at 0.      *)
(***************************************************************************)
\* 1000 * 3^(i/4), i = 0..4, at index i + 1
Pow3Grid == <<1000, 1316, 1732, 2280, 3000>>
\* 1000 * ln(i/4), i = 1..16, at index i
LogGrid ==
  <<-1386, -693, -288, 0, 223, 405, 560, 693,
    811, 916, 1012, 1099, 1179, 1253, 1322, 1386>>

\* the value at x of the line through the grid points around x, for a grid
\* whose entry i + offset is 1000 * f(i / 4)
Interpolate(grid, offset, x) ==
  LET i == (4 * x.n) \div x.d
      frac == Sub(Mul(Num(4), x), Num(i))
      lo == grid[i + offset]
      hi == IF i + offset + 1 <= Len(grid) THEN grid[i + offset + 1] ELSE lo
  IN Add(Rat(lo, 1000), Mul(frac, Rat(hi - lo, 1000)))

\* 3^x for finite x, by reduction of x to [0, 1)
RECURSIVE Pow3Fin(_)
Pow3Fin(x) ==
  IF x.n < 0 THEN Div(Pow3Fin(Add(x, Num(1))), Num(3))
  ELSE IF x.n >= x.d THEN Mul(Num(3), Pow3Fin(Sub(x, Num(1))))
  ELSE Interpolate(Pow3Grid, 1, x)

\* Math.pow(1 + rate, x) with rate = 2
MathPow3(x) ==
  IF IsNaN(x) THEN NaN
  ELSE IF ~IsFin(x) THEN (IF x.s > 0 THEN Infinity(1) ELSE Num(0))
  ELSE Pow3Fin(x)

\* ln y for finite y > 0, by reduction of y to [1/4, 4]
RECURSIVE LogFin(_)
LogFin(y) ==
  IF 4 * y.n < y.d THEN Sub(LogFin(Mul(y, Num(4))), Rat(1386, 1000))
  ELSE IF y.n > 4 * y.d THEN Add(LogFin(Div(y, Num(4))), Rat(1386, 1000))
  ELSE Interpolate(LogGrid, 0, y)

\* Math.log(y)
MathLog(y) ==
  IF IsNaN(y) THEN NaN
  ELSE IF ~IsFin(y) THEN (IF y.s > 0 THEN Infinity(1) ELSE NaN)
  ELSE IF y.n < 0 THEN NaN
  ELSE IF y.n = 0 THEN Infinity(-1)
  ELSE LogFin(y)

(***************************************************************************)
(* The bonding curve: calculateBuyPrice, calculateSellPrice,               *)
(* getCurrentPrice, getBuyQuote and getSellQuote.                          *)
(***************************************************************************)
\* 0.0025
PLATFORM_FEE_RATE == Rat(1, 400)

CurveTypes == {"linear", "exponential", "logarithmic"}

\* the price expression of a curve inside calculateBuyPrice and
\* calculateSellPrice (slope = initialPrice * 0.5, rate = 2, multiplier = 10)
CurvePriceAt(curveType, initialPrice, progress) ==
  CASE curveType = "linear" ->
         Add(initialPrice, Mul(Mul(initialPrice, Rat(1, 2)), progress))
    [] curveType = "exponential" -> Mul(initialPrice, MathPow3(progress))
    [] curveType = "logarithmic" ->
         Mul(initialPrice,
             Add(Num(1), Mul(Num(10), MathLog(Add(Num(1), progress)))))
    [] OTHER -> initialPrice

\* the fee is taken on the net amount
BuyFee_OnNet(solAmount) ==
  LET netSolAmount == Mul(solAmount, Sub(Num(1), PLATFORM_FEE_RATE))
  IN [fee |-> Mul(netSolAmount, PLATFORM_FEE_RATE), netSolAmount |-> netSolAmount]

\* fee and netSolAmount of calculateBuyPrice
BuyFee(solAmount) ==
  LET fee == Mul(solAmount, PLATFORM_FEE_RATE)
  IN [fee |-> fee, netSolAmount |-> Sub(solAmount, fee)]

\* const name = value; rest: the value of a local is computed once and
\* the rest of the function body reads it by name
With(value, Rest(_)) == Rest(value)

\* the result is not clamped to the tokens that remain
calculateBuyPrice_NoClamp(currentRaised, solAmount, curveType, totalSupply, targetRaised) ==
  With(BuyFee(solAmount), LAMBDA charge :
  With(Div(currentRaised, targetRaised), LAMBDA progress :
  With(Div(targetRaised, Mul(totalSupply, Rat(4, 5))), LAMBDA initialPrice :
  With(CurvePriceAt(curveType, initialPrice, progress), LAMBDA currentPrice :
  With(CurvePriceAt(curveType, initialPrice,
                    Div(Add(currentRaised, charge.netSolAmount), targetRaised)),
       LAMBDA endPrice :
    [tokensOut |-> MathFloor(Div(charge.netSolAmount,
                                 Div(Add(currentPrice, endPrice), Num(2)))),
     priceImpact |-> MathMin(Mul(Div(Sub(endPrice, currentPrice), currentPrice), Num(100)),
                             Num(100)),
     fee |-> charge.fee])))))

calculateBuyPrice(currentRaised, solAmount, curveType, totalSupply, targetRaised) ==
  With(BuyFee(solAmount), LAMBDA charge :
  With(Div(currentRaised, targetRaised), LAMBDA progress :
  With(Mul(totalSupply, Rat(4, 5)), LAMBDA tokensAvailable :
  With(Mul(tokensAvailable, progress), LAMBDA tokensSold :
  With(Sub(tokensAvailable, tokensSold), LAMBDA tokensRemaining :
  With(Div(targetRaised, tokensAvailable), LAMBDA initialPrice :
  With(CurvePriceAt(curveType, initialPrice, progress), LAMBDA currentPrice :
  With(Div(Add(currentRaised, charge.netSolAmount), targetRaised), LAMBDA endProgress :
  With(CurvePriceAt(curveType, initialPrice, endProgress), LAMBDA endPrice :
  With(IF curveType \in CurveTypes
       THEN Div(charge.netSolAmount, Div(Add(currentPrice, endPrice), Num(2)))
       ELSE Div(charge.netSolAmount, initialPrice), LAMBDA tokensOut :
  With(IF curveType \in CurveTypes
       THEN Mul(Div(Sub(endPrice, currentPrice), currentPrice), Num(100))
       ELSE Num(0), LAMBDA priceImpact :
    [tokensOut |-> MathFloor(MathMin(tokensOut, tokensRemaining)),
     priceImpact |-> MathMin(priceImpact, Num(100)),
     fee |-> charge.fee])))))))))))

calculateSellPrice(currentRaised, tokenAmount, curveType, totalSupply, targetRaised) ==
  With(Div(currentRaised, targetRaised), LAMBDA progress :
  With(Mul(totalSupply, Rat(4, 5)), LAMBDA tokensAvailable :
  With(Mul(tokensAvailable, progress), LAMBDA tokensSold :
  With(Div(targetRaised, tokensAvailable), LAMBDA initialPrice :
  With(Sub(tokensSold, tokenAmount), LAMBDA tokensSoldAfter :
  With(Div(tokensSoldAfter, tokensAvailable), LAMBDA endProgress :
  With(CurvePriceAt(curveType, initialPrice, progress), LAMBDA currentPrice :
  With(CurvePriceAt(curveType, initialPrice, endProgress), LAMBDA endPrice :
  With(IF curveType \in CurveTypes
       THEN Mul(tokenAmount, Div(Add(currentPrice, endPrice), Num(2)))
       ELSE Mul(tokenAmount, initialPrice), LAMBDA uncapped :
  With(IF curveType \in CurveTypes
       THEN Mul(Div(Sub(currentPrice, endPrice), currentPrice), Num(100))
       ELSE Num(0), LAMBDA priceImpact :
  With(MathMin(uncapped, currentRaised), LAMBDA grossSolOut :
  With(Mul(grossSolOut, PLATFORM_FEE_RATE), LAMBDA fee :
  With(Sub(grossSolOut, fee), LAMBDA solOut :
    [solOut |-> MathMax(solOut, Num(0)),
     priceImpact |-> MathMin(MathAbs(priceImpact), Num(100)),
     fee |-> fee])))))))))))))

\* the linear price falls with progress
getCurrentPrice_FallingLinear(currentRaised, curveType, totalSupply, targetRaised) ==
  With(Div(currentRaised, targetRaised), LAMBDA progress :
  With(Div(targetRaised, Mul(totalSupply, Rat(4, 5))), LAMBDA initialPrice :
    IF curveType = "linear"
    THEN Sub(initialPrice, Mul(Mul(initialPrice, Rat(1, 2)), progress))
    ELSE CurvePriceAt(curveType, initialPrice, progress)))

getCurrentPrice(currentRaised, curveType, totalSupply, targetRaised) ==
  With(Div(currentRaised, targetRaised), LAMBDA progress :
  With(Mul(totalSupply, Rat(4, 5)), LAMBDA tokensAvailable :
  With(Div(targetRaised, tokensAvailable), LAMBDA initialPrice :
    CASE curveType = "linear" ->
           With(Mul(initialPrice, Rat(1, 2)), LAMBDA slope :
             Add(initialPrice, Mul(slope, progress)))
      [] curveType = "exponential" -> Mul(initialPrice, MathPow3(progress))
      [] curveType = "logarithmic" ->
           Mul(initialPrice, Add(Num(1), Mul(Num(10), MathLog(Add(Num(1), progress)))))
      [] OTHER -> initialPrice)))

getBuyQuote(solAmount, currentRaised, curveType, totalSupply, targetRaised) ==
  With(calculateBuyPrice(currentRaised, solAmount, curveType, totalSupply, targetRaised),
       LAMBDA result :
  With(Sub(Add(currentRaised, solAmount), result.fee), LAMBDA newRaised :
    [amountIn |-> solAmount,
     amountOut |-> result.tokensOut,
     fee |-> result.fee,
     priceImpact |-> result.priceImpact,
     currentPrice |-> getCurrentPrice(currentRaised, curveType, totalSupply, targetRaised),
     newPrice |-> getCurrentPrice(newRaised, curveType, totalSupply, targetRaised)]))

getSellQuote(tokenAmount, currentRaised, curveType, totalSupply, targetRaised) ==
  With(calculateSellPrice(currentRaised, tokenAmount, curveType, totalSupply, targetRaised),
       LAMBDA result :
  With(Sub(Sub(currentRaised, result.solOut), result.fee), LAMBDA newRaised :
    [amountIn |-> tokenAmount,
     amountOut |-> result.solOut,
     fee |-> result.fee,
     priceImpact |-> result.priceImpact,
     currentPrice |-> getCurrentPrice(currentRaised, curveType, totalSupply, targetRaised),
     newPrice |-> getCurrentPrice(MathMax(Num(0), newRaised), curveType, totalSupply,
                                  targetRaised)]))

(***************************************************************************)
(* verifyTradeTransaction: the tolerance of the SOL amount check,          *)
(* expectedSolAmount * 0.05 + 0.001, in units: amountDiff > tolerance is   *)
(* 20 * amountDiff > expectedSolAmount + 20 * FixedTolerance.              *)
(***************************************************************************)
FixedTolerance == 10
TolerancePctInverse == 20

\* approve counted as a token transfer
TokenTransferTypes_WithApprove ==
  {"transfer", "transferChecked", "mintTo", "burn", "burnChecked", "approve"}

\* the instruction types that count as a token transfer
TokenTransferTypes == {"transfer", "transferChecked", "mintTo", "burn", "burnChecked"}

\* absent field of a parsed instruction's info
NoField == "none"

\* top-level instructions followed by the inner instructions
RECURSIVE Flatten(_)
Flatten(groups) ==
  IF groups = << >> THEN << >> ELSE Head(groups) \o Flatten(Tail(groups))

allInstructionsOf(tx) == tx.instructions \o Flatten(tx.innerInstructions)

\* the scan of allInstructions: [found, verified] after the loop, which
\* stops at the first instruction that references the mint
RECURSIVE ScanInstructions(_, _, _, _)
ScanInstructions(ixs, expectedMint, expectedAta, found) ==
  IF ixs = << >> THEN [tokenTransferFound |-> found, mintVerified |-> FALSE]
  ELSE LET ix == Head(ixs) IN
    IF ix.program = "spl-token" /\ ix.parsed /\ ix.type \in TokenTransferTypes
    THEN IF ix.mint = expectedMint
         THEN [tokenTransferFound |-> TRUE, mintVerified |-> TRUE]
         ELSE IF \/ ix.source = expectedAta
                 \/ ix.destination = expectedAta
                 \/ ix.account = expectedAta
              THEN [tokenTransferFound |-> TRUE, mintVerified |-> TRUE]
              ELSE ScanInstructions(Tail(ixs), expectedMint, expectedAta, TRUE)
    ELSE ScanInstructions(Tail(ixs), expectedMint, expectedAta, found)

\* accountKeys.findIndex(k => k.pubkey.toBase58() === addr), 0 when absent
RECURSIVE FindIndexFrom(_, _, _)
FindIndexFrom(keys, addr, i) ==
  IF i > Len(keys) THEN 0
  ELSE IF keys[i].pubkey = addr THEN i ELSE FindIndexFrom(keys, addr, i + 1)

findIndex(keys, addr) == FindIndexFrom(keys, addr, 1)

\* parseFloat(balances.find(b => b.accountIndex === idx)?.uiTokenAmount
\*   ?.uiAmount?.toString() || '0')
RECURSIVE TokenBalanceAt(_, _)
TokenBalanceAt(balances, idx) ==
  IF balances = << >> THEN 0
  ELSE IF Head(balances).accountIndex = idx THEN Head(balances).uiAmount
       ELSE TokenBalanceAt(Tail(balances), idx)

\* balances[idx] || 0
LamportsAt(balances, idx) ==
  IF idx \in 1..Len(balances) THEN balances[idx] ELSE 0

\* the signer flag of the key is not looked at
walletIsSigner_AnyKey(tx, expectedWallet) ==
  \E i \in 1..Len(tx.accountKeys) : tx.accountKeys[i].pubkey = expectedWallet

walletIsSigner(tx, expectedWallet) ==
  \E i \in 1..Len(tx.accountKeys) :
    tx.accountKeys[i].pubkey = expectedWallet /\ tx.accountKeys[i].signer

\* postBal - preBal of the wallet's token account, read when ataIndex # -1
tokenChange(tx, ataIndex) ==
  TokenBalanceAt(tx.postTokenBalances, ataIndex)
    - TokenBalanceAt(tx.preTokenBalances, ataIndex)

\* (postBal - preBal) / LAMPORTS_PER_SOL of the wallet
balanceChange(tx, walletIndex) ==
  LamportsAt(tx.postBalances, walletIndex) - LamportsAt(tx.preBalances, walletIndex)

actualSolAmount(tx, walletIndex, isBuy) ==
  IF isBuy THEN -balanceChange(tx, walletIndex) ELSE balanceChange(tx, walletIndex)

\* a tolerance of 10% instead of 5%
AmountMismatch_TenPercent(actual, expectedSolAmount) ==
  10 * Abs(actual - expectedSolAmount) > expectedSolAmount + 10 * FixedTolerance

\* amountDiff > tolerance
AmountMismatch(actual, expectedSolAmount) ==
  TolerancePctInverse * Abs(actual - expectedSolAmount)
    > expectedSolAmount + TolerancePctInverse * FixedTolerance

ErrNotFound == "Transaction not found"
ErrFailed == "Transaction failed on-chain"
ErrNotSigner == "Wallet is not a signer of the transaction"
ErrNoTransfer == "No token transfer found in transaction"
ErrMint == "Token transfer does not involve the expected mint"
ErrBuyDirection == "Expected token balance increase for buy, but got decrease or no change"
ErrSellDirection == "Expected token balance decrease for sell, but got increase or no change"
ErrWalletMissing == "Wallet not found in transaction accounts"
ErrAmount == "SOL amount mismatch"
ErrThrown == "Error: rpc"

Invalid(e) == [valid |-> FALSE, error |-> e]

\* the amount is compared before the direction of the token balance
VerifyBalances_AmountFirst(tx, p) ==
  LET expectedAta == getAssociatedTokenAddressSync(p.expectedMint, p.expectedWallet)
      ataIndex == findIndex(tx.accountKeys, expectedAta)
      walletIndex == findIndex(tx.accountKeys, p.expectedWallet)
      actual == actualSolAmount(tx, walletIndex, p.isBuy)
  IN IF walletIndex = 0 THEN Invalid(ErrWalletMissing)
     ELSE IF AmountMismatch(actual, p.expectedSolAmount) THEN Invalid(ErrAmount)
     ELSE IF ataIndex # 0 /\ p.isBuy /\ tokenChange(tx, ataIndex) <= 0
       THEN Invalid(ErrBuyDirection)
     ELSE IF ataIndex # 0 /\ ~p.isBuy /\ tokenChange(tx, ataIndex) >= 0
       THEN Invalid(ErrSellDirection)
     ELSE [valid |-> TRUE, solAmount |-> actual,
           walletAddress |-> p.expectedWallet, mintAddress |-> p.expectedMint]

\* the checks that follow the signer check
VerifyBalances(tx, p) ==
  LET expectedAta == getAssociatedTokenAddressSync(p.expectedMint, p.expectedWallet)
      ataIndex == findIndex(tx.accountKeys, expectedAta)
      walletIndex == findIndex(tx.accountKeys, p.expectedWallet)
      actual == actualSolAmount(tx, walletIndex, p.isBuy)
  IN IF ataIndex # 0 /\ p.isBuy /\ tokenChange(tx, ataIndex) <= 0
       THEN Invalid(ErrBuyDirection)
     ELSE IF ataIndex # 0 /\ ~p.isBuy /\ tokenChange(tx, ataIndex) >= 0
       THEN Invalid(ErrSellDirection)
     ELSE IF walletIndex = 0 THEN Invalid(ErrWalletMissing)
     ELSE IF AmountMismatch(actual, p.expectedSolAmount) THEN Invalid(ErrAmount)
     ELSE [valid |-> TRUE, solAmount |-> actual,
           walletAddress |-> p.expectedWallet, mintAddress |-> p.expectedMint]

\* meta.err is not looked at
verifyTradeTransaction_IgnoresErr(rpc, p) ==
  IF rpc.kind = "throw" THEN Invalid(ErrThrown)
  ELSE IF rpc.kind = "null" THEN Invalid(ErrNotFound)
  ELSE LET tx == rpc.tx
           scan == ScanInstructions(allInstructionsOf(tx), p.expectedMint,
                     getAssociatedTokenAddressSync(p.expectedMint, p.expectedWallet),
                     FALSE)
       IN IF ~walletIsSigner(tx, p.expectedWallet) THEN Invalid(ErrNotSigner)
          ELSE IF ~scan.tokenTransferFound THEN Invalid(ErrNoTransfer)
          ELSE IF ~scan.mintVerified THEN Invalid(ErrMint)
          ELSE VerifyBalances(tx, p)

\* rpc is the outcome of connection.getParsedTransaction: it throws, it
\* returns null, or it returns the parsed transaction
verifyTradeTransaction(rpc, p) ==
  IF rpc.kind = "throw" THEN Invalid(ErrThrown)
  ELSE IF rpc.kind = "null" THEN Invalid(ErrNotFound)
  ELSE LET tx == rpc.tx
           scan == ScanInstructions(allInstructionsOf(tx), p.expectedMint,
                     getAssociatedTokenAddressSync(p.expectedMint, p.expectedWallet),
                     FALSE)
       IN IF tx.err THEN Invalid(ErrFailed)
          ELSE IF ~walletIsSigner(tx, p.expectedWallet) THEN Invalid(ErrNotSigner)
          ELSE IF ~scan.tokenTransferFound THEN Invalid(ErrNoTransfer)
          ELSE IF ~scan.mintVerified THEN Invalid(ErrMint)
          ELSE VerifyBalances(tx, p)

(***************************************************************************)
(* The transactions the chain can hold, as getParsedTransaction returns    *)
(* them, for the wallet W1 and the mint M1 of the calls.                   *)
(***************************************************************************)
ATA11 == getAssociatedTokenAddressSync(M1, W1)
OtherTokenAccount == "tokenAccountX"
Pubkeys == {W1, W2, ATA11}

\* <<pre, post>> native balances of the wallet: changes of 0, 1, 11, 12,
\* 220 and 221 units in both directions, the edges of the tolerance for the
\* expected amounts 1 and 200
WalletBalancePairs ==
  {<<221, 221>>, <<221, 220>>, <<220, 221>>, <<221, 210>>, <<210, 221>>,
   <<221, 209>>, <<209, 221>>, <<221, 1>>, <<1, 221>>, <<221, 0>>, <<0, 221>>}
\* <<pre, post>> token balance entries of the wallet's token account: 0 is
\* "no entry"
TokenBalancePairs == {<<0, 0>>, <<0, 1>>, <<1, 0>>, <<1, 1>>}

Ix(program, parsed, type, mint, source, destination, account) ==
  [program |-> program, parsed |-> parsed, type |-> type, mint |-> mint,
   source |-> source, destination |-> destination, account |-> account]

IxSystemTransfer == Ix("system", TRUE, "transfer", NoField, W1, W2, NoField)
IxApprove == Ix("spl-token", TRUE, "approve", NoField, ATA11, NoField, NoField)
IxTransferToAta == Ix("spl-token", TRUE, "transfer", NoField, OtherTokenAccount, ATA11, NoField)
IxTransferCheckedM1 == Ix("spl-token", TRUE, "transferChecked", M1, OtherTokenAccount, OtherTokenAccount, NoField)
IxTransferCheckedM2 == Ix("spl-token", TRUE, "transferChecked", M2, OtherTokenAccount, OtherTokenAccount, NoField)
IxBurnAta == Ix("spl-token", TRUE, "burn", NoField, NoField, NoField, ATA11)

IxCatalogue ==
  {IxSystemTransfer, IxApprove, IxTransferToAta,
   IxTransferCheckedM1, IxTransferCheckedM2}


SeqsUpTo(S, n) == UNION {[1..k -> S] : k \in 0..n}

\* sequences of distinct keys; the first key signs or none does
KeyLayouts ==
  {[i \in 1..Len(ks) |-> [pubkey |-> ks[i], signer |-> i <= n]] :
     <<ks, n>> \in {<<s, m>> \in SeqsUpTo(Pubkeys, MaxKeys) \X (0..1) :
                      /\ Len(s) >= 1
                      /\ m <= Len(s)
                      /\ \A i, j \in 1..Len(s) : i # j => s[i] # s[j]}}

\* the wallet holds w; every other account holds 50
NativeBalances(keys, w) ==
  [i \in 1..Len(keys) |-> IF keys[i].pubkey = W1 THEN w ELSE 50]

TokenBalances(keys, amount) ==
  LET i == findIndex(keys, ATA11)
  IN IF i = 0 \/ amount = 0 THEN << >>
     ELSE <<[accountIndex |-> i, uiAmount |-> amount]>>

\* meta.innerInstructions: no group, or one group of one token instruction
\* issued by CPI
InnerGroups == {<< >>, <<<<IxBurnAta>>>>, <<<<IxTransferCheckedM2>>>>}

ParsedTx(e, keys, top, inner, tok, sol) ==
  [err |-> e, accountKeys |-> keys,
   instructions |-> top, innerInstructions |-> inner,
   preTokenBalances |-> TokenBalances(keys, tok[1]),
   postTokenBalances |-> TokenBalances(keys, tok[2]),
   preBalances |-> NativeBalances(keys, sol[1]),
   postBalances |-> NativeBalances(keys, sol[2])]

ExpectedSolAmounts == {1, 200}

ParamSpace ==
  {[expectedWallet |-> W1, expectedMint |-> M1, expectedSolAmount |-> a, isBuy |-> b] :
     a \in ExpectedSolAmounts, b \in BOOLEAN}

(***************************************************************************)
(* The token-creation check of POST /api/transactions/confirm.  world is   *)
(* what the chain shows for the signature and the claimed mint.            *)
(***************************************************************************)
ExpectedDecimals == 9

verifyTokenCreation(world, p) ==
  IF world.status = "none" THEN Invalid(ErrNotFound)
  ELSE IF world.status = "err" THEN Invalid(ErrFailed)
  ELSE IF world.status \notin {"confirmed", "finalized"}
    THEN Invalid("Transaction not yet confirmed")
  ELSE IF ~world.mintExists
    THEN Invalid("Mint account not found on-chain after transaction")
  ELSE IF world.mintAuthority # p.expectedCreator
    THEN Invalid("On-chain mint authority does not match creator")
  ELSE IF world.decimals # p.expectedDecimals
    THEN Invalid("On-chain decimals mismatch")
  ELSE IF world.supply < p.expectedTotalSupply
    THEN Invalid("On-chain supply too low")
  ELSE IF ~world.ataExists
    THEN Invalid("Creator token account not found on-chain")
  ELSE IF world.ataAmount = 0
    THEN Invalid("Creator token account has zero balance")
  ELSE [valid |-> TRUE, mintAddress |-> p.expectedMint,
        creatorAddress |-> p.expectedCreator]

\* waitForConfirmation: the confirmation came back without an error
waitForConfirmation(world) == world.status \in {"confirmed", "finalized"}

GoodCreation ==
  [status |-> "confirmed", mintExists |-> TRUE, mintAuthority |-> W1,
   decimals |-> ExpectedDecimals, supply |-> 1000,
   ataExists |-> TRUE, ataAmount |-> 1000]

\* what the chain can show for a creation signature
CreationWorlds ==
  {GoodCreation,
   [GoodCreation EXCEPT !.status = "none"],
   [GoodCreation EXCEPT !.status = "err"],
   [GoodCreation EXCEPT !.status = "processed"],
   [GoodCreation EXCEPT !.mintExists = FALSE],
   [GoodCreation EXCEPT !.mintAuthority = W2],
   [GoodCreation EXCEPT !.decimals = 6],
   [GoodCreation EXCEPT !.supply = 999],
   [GoodCreation EXCEPT !.ataExists = FALSE],
   [GoodCreation EXCEPT !.ataAmount = 0]}

(***************************************************************************)
(* The launch table (storage) and the routes.  One launch id exists; a     *)
(* request made before the launch is created finds no launch.              *)
(***************************************************************************)
LaunchIds == {"L1"}
NoLaunch == [exists |-> FALSE]
Idle == [pc |-> "idle"]
Reqs == 1..MaxRequests

\* the fundraising targets and the raised amounts a client can put in the
\* launch data
FundraisingTargets == {205}
ClientRaised == {0, 205}
Statuses == {"active", "graduated", "failed"}

\* volume24h adds the SOL amount times 150
UsdPerSol == 150

getLaunchById(table, id) == table[id]

createLaunch(table, id, row) ==
  [table EXCEPT ![id] =
     [exists |-> TRUE, mintAddress |-> row.mintAddress, status |-> row.status,
      currentRaised |-> row.currentRaised,
      fundraisingTarget |-> row.fundraisingTarget,
      totalSupply |-> row.totalSupply, curveType |-> row.curveType,
      holders |-> row.holders, volume24h |-> row.volume24h]]

\* db.update(tokenLaunches).set(updates).where(id = ...)
updateLaunch(table, id, updates) ==
  IF ~table[id].exists THEN table
  ELSE [table EXCEPT ![id] =
          [f \in DOMAIN table[id] |->
             IF f \in DOMAIN updates THEN updates[f] ELSE table[id][f]]]

Respond(route, code, err) ==
  [pc |-> "done", route |-> route, status |-> code, error |-> err]

\* POST /api/transactions/confirm
ConfirmTransaction(data, world) ==
  /\ \A id \in LaunchIds : ~launches[id].exists
  /\ waitForConfirmation(world)
  /\ verifyTokenCreation(world,
        [expectedMint |-> data.mintAddress, expectedCreator |-> data.creatorAddress,
         expectedTotalSupply |-> data.totalSupply, expectedDecimals |-> ExpectedDecimals]).valid
  /\ launches' = createLaunch(launches, "L1",
        [mintAddress |-> data.mintAddress, status |-> "active",
         currentRaised |-> data.currentRaised,
         fundraisingTarget |-> data.fundraisingTarget,
         totalSupply |-> data.totalSupply, curveType |-> data.curveType,
         holders |-> 1, volume24h |-> 0])
  /\ UNCHANGED <<reqs, vcall, curveVars, cacheVars>>

\* POST /api/launches
CreateLaunch(data) ==
  /\ \A id \in LaunchIds : ~launches[id].exists
  /\ isValidSolanaAddress(data.creatorAddress)
  /\ launches' = createLaunch(launches, "L1",
        [mintAddress |-> data.mintAddress, status |-> data.status,
         currentRaised |-> data.currentRaised,
         fundraisingTarget |-> data.fundraisingTarget,
         totalSupply |-> data.totalSupply, curveType |-> data.curveType,
         holders |-> 0, volume24h |-> 0])
  /\ UNCHANGED <<reqs, vcall, curveVars, cacheVars>>

\* PATCH /api/launches/:id
PatchLaunch(id, body) ==
  /\ launches[id].exists
  /\ launches' = updateLaunch(launches, id, body)
  /\ launches' # launches
  /\ UNCHANGED <<reqs, vcall, curveVars, cacheVars>>

(***************************************************************************)
(* The trade transactions on the chain that the requests can name.         *)
(***************************************************************************)
TradeKeys == <<[pubkey |-> W1, signer |-> TRUE], [pubkey |-> ATA11, signer |-> FALSE]>>

TradeTx(keys, tokPre, tokPost, solPre, solPost) ==
  ParsedTx(FALSE, keys, <<IxSystemTransfer>>, <<<<IxTransferToAta>>>>,
           <<tokPre, tokPost>>, <<solPre, solPost>>)

TxSignatures ==
  {"sigBuy200", "sigBuy205", "sigBuyZero", "sigBuyNeg", "sigSell200", "sigNotSigner"}

\* connection.getParsedTransaction(signature) when the read succeeds
getParsedTransaction(signature) ==
  CASE signature = "sigBuy200" -> [kind |-> "tx", tx |-> TradeTx(TradeKeys, 0, 1, 221, 21)]
    [] signature = "sigBuy205" -> [kind |-> "tx", tx |-> TradeTx(TradeKeys, 0, 1, 221, 16)]
    [] signature = "sigBuyZero" -> [kind |-> "tx", tx |-> TradeTx(TradeKeys, 0, 1, 221, 221)]
    [] signature = "sigBuyNeg" -> [kind |-> "tx", tx |-> TradeTx(TradeKeys, 0, 1, 220, 221)]
    [] signature = "sigSell200" -> [kind |-> "tx", tx |-> TradeTx(TradeKeys, 1, 0, 21, 221)]
    [] signature = "sigNotSigner" ->
         [kind |-> "tx",
          tx |-> TradeTx(<<[pubkey |-> W2, signer |-> TRUE], [pubkey |-> W1, signer |-> FALSE],
                           [pubkey |-> ATA11, signer |-> FALSE]>>, 0, 1, 221, 21)]
    [] OTHER -> [kind |-> "null"]

\* what a trade request can carry: amount is solAmount (buy) or solReceived
\* (sell), tokens is tokensReceived (buy) or tokenAmount (sell)
TradeBodies ==
  [txSignature : TxSignatures \cup {"", "sigUnknown"},
   walletAddress : {W1, "not-an-address"},
   amount : {0, 1, 200},
   tokens : {0, 1}]

(***************************************************************************)
(* A trade handler reads the launch (getLaunchById), awaits, and writes it *)
(* (updateLaunch) with values computed from the launch it read.  The       *)
(* launch table is the only state the handlers share, so a handler is two  *)
(* steps: Start validates the body and reads; Finish verifies and writes.  *)
(***************************************************************************)
CanStart(r) ==
  /\ reqs[r].pc = "idle"
  /\ \A q \in Reqs : q < r => reqs[q].pc # "idle"

Awaiting(route, launch, body) ==
  [pc |-> "awaiting", route |-> route, launch |-> launch,
   txSignature |-> body.txSignature, walletAddress |-> body.walletAddress,
   amount |-> body.amount]

Applied(route, txSignature, solAmount, graduated) ==
  [pc |-> "done", route |-> route, status |-> 200, error |-> "",
   txSignature |-> txSignature, solAmount |-> solAmount, graduated |-> graduated]

\* POST /api/launches/:id/confirm-buy, up to the read of the launch
ConfirmBuyStart(r, id, body) ==
  /\ CanStart(r)
  /\ LET launch == getLaunchById(launches, id)
         route == "confirm-buy"
     IN reqs' = [reqs EXCEPT ![r] =
          IF body.txSignature = ""
            THEN Respond(route, 400, "Valid transaction signature required")
          ELSE IF ~isValidSolanaAddress(body.walletAddress)
            THEN Respond(route, 400, "Invalid wallet address")
          ELSE IF body.amount <= 0
            THEN Respond(route, 400, "Invalid SOL amount: must be a positive number")
          ELSE IF body.tokens <= 0
            THEN Respond(route, 400, "Invalid tokens received: must be a positive number")
          ELSE IF ~launch.exists
            THEN Respond(route, 404, "Launch not found")
          ELSE IF launch.status # "active"
            THEN Respond(route, 400, "Token has graduated or is not active")
          ELSE Awaiting(route, launch, body)]
  /\ UNCHANGED <<launches, vcall, curveVars, cacheVars>>

\* verification.solAmount || solAmountNum
verifiedAmount(verification, claimed) ==
  IF verification.solAmount # 0 THEN verification.solAmount ELSE claimed

\* the update that confirm-buy writes
BuyUpdate(launch, solAmount) ==
  LET newRaised == launch.currentRaised + solAmount
  IN [currentRaised |-> newRaised,
      status |-> IF newRaised >= launch.fundraisingTarget THEN "graduated" ELSE "active",
      holders |-> launch.holders + 1,
      volume24h |-> launch.volume24h + solAmount * UsdPerSol]

\* confirm-buy from the verification to the response
ConfirmBuyFinish(r, id, rpcThrows) ==
  /\ reqs[r].pc = "awaiting"
  /\ reqs[r].route = "confirm-buy"
  /\ LET q == reqs[r]
         rpc == IF rpcThrows THEN [kind |-> "throw"] ELSE getParsedTransaction(q.txSignature)
         verification == verifyTradeTransaction(rpc,
            [expectedWallet |-> q.walletAddress, expectedMint |-> q.launch.mintAddress,
             expectedSolAmount |-> q.amount, isBuy |-> TRUE])
     IN IF ~verification.valid
        THEN /\ reqs' = [reqs EXCEPT ![r] =
                   Respond(q.route, 400, "Transaction verification failed")]
             /\ UNCHANGED launches
        ELSE LET verifiedSolAmount == verifiedAmount(verification, q.amount)
                 updates == BuyUpdate(q.launch, verifiedSolAmount)
             IN /\ launches' = updateLaunch(launches, id, updates)
                /\ reqs' = [reqs EXCEPT ![r] =
                      Applied(q.route, q.txSignature, verifiedSolAmount,
                              updates.status = "graduated")]
  /\ UNCHANGED <<vcall, curveVars, cacheVars>>

\* POST /api/launches/:id/confirm-sell, up to the read of the launch
ConfirmSellStart(r, id, body) ==
  /\ CanStart(r)
  /\ LET launch == getLaunchById(launches, id)
         route == "confirm-sell"
     IN reqs' = [reqs EXCEPT ![r] =
          IF body.txSignature = ""
            THEN Respond(route, 400, "Valid transaction signature required")
          ELSE IF ~isValidSolanaAddress(body.walletAddress)
            THEN Respond(route, 400, "Invalid wallet address")
          ELSE IF body.tokens <= 0
            THEN Respond(route, 400, "Invalid token amount: must be a positive number")
          ELSE IF body.amount <= 0
            THEN Respond(route, 400, "Invalid SOL received: must be a positive number")
          ELSE IF ~launch.exists
            THEN Respond(route, 404, "Launch not found")
          ELSE Awaiting(route, launch, body)]
  /\ UNCHANGED <<launches, vcall, curveVars, cacheVars>>

\* the volume is written before the verification result is looked at
ConfirmSellFinish_UpdateFirst(r, id, rpcThrows) ==
  /\ reqs[r].pc = "awaiting"
  /\ reqs[r].route = "confirm-sell"
  /\ LET q == reqs[r]
         rpc == IF rpcThrows THEN [kind |-> "throw"] ELSE getParsedTransaction(q.txSignature)
         verification == verifyTradeTransaction(rpc,
            [expectedWallet |-> q.walletAddress, expectedMint |-> q.launch.mintAddress,
             expectedSolAmount |-> q.amount, isBuy |-> FALSE])
     IN /\ launches' = updateLaunch(launches, id,
              [volume24h |-> q.launch.volume24h + q.amount * UsdPerSol])
        /\ reqs' = [reqs EXCEPT ![r] =
              IF ~verification.valid
              THEN Respond(q.route, 400, "Transaction verification failed")
              ELSE Applied(q.route, q.txSignature, q.amount, FALSE)]
  /\ UNCHANGED <<vcall, curveVars, cacheVars>>

\* confirm-sell from the verification to the response
ConfirmSellFinish(r, id, rpcThrows) ==
  /\ reqs[r].pc = "awaiting"
  /\ reqs[r].route = "confirm-sell"
  /\ LET q == reqs[r]
         rpc == IF rpcThrows THEN [kind |-> "throw"] ELSE getParsedTransaction(q.txSignature)
         verification == verifyTradeTransaction(rpc,
            [expectedWallet |-> q.walletAddress, expectedMint |-> q.launch.mintAddress,
             expectedSolAmount |-> q.amount, isBuy |-> FALSE])
     IN IF ~verification.valid
        THEN /\ reqs' = [reqs EXCEPT ![r] =
                   Respond(q.route, 400, "Transaction verification failed")]
             /\ UNCHANGED launches
        ELSE LET verifiedSolReceived == verifiedAmount(verification, q.amount)
             IN /\ launches' = updateLaunch(launches, id,
                      [volume24h |-> q.launch.volume24h + verifiedSolReceived * UsdPerSol])
                /\ reqs' = [reqs EXCEPT ![r] =
                      Applied(q.route, q.txSignature, verifiedSolReceived, FALSE)]
  /\ UNCHANGED <<vcall, curveVars, cacheVars>>

\* POST /api/launches/:id/buy, up to the read of the launch
BuyStart(r, id, body) ==
  /\ CanStart(r)
  /\ LET launch == getLaunchById(launches, id)
         route == "buy"
     IN reqs' = [reqs EXCEPT ![r] =
          IF body.amount <= 0
            THEN Respond(route, 400, "Invalid SOL amount")
          ELSE IF ~isValidSolanaAddress(body.walletAddress)
            THEN Respond(route, 400, "Invalid wallet address")
          ELSE IF ~launch.exists
            THEN Respond(route, 404, "Launch not found")
          ELSE IF launch.status # "active"
            THEN Respond(route, 400, "Token has graduated or failed")
          ELSE Awaiting(route, launch, body)]
  /\ UNCHANGED <<launches, vcall, curveVars, cacheVars>>

\* /buy: the write and the response
BuyFinish(r, id) ==
  /\ reqs[r].pc = "awaiting"
  /\ reqs[r].route = "buy"
  /\ LET q == reqs[r]
         updates == BuyUpdate(q.launch, q.amount)
     IN /\ launches' = updateLaunch(launches, id, updates)
        /\ reqs' = [reqs EXCEPT ![r] =
              Applied(q.route, q.txSignature, q.amount, updates.status = "graduated")]
  /\ UNCHANGED <<vcall, curveVars, cacheVars>>

\* POST /api/launches/:id/sell, up to the read of the launch
SellStart(r, id, body) ==
  /\ CanStart(r)
  /\ LET launch == getLaunchById(launches, id)
         route == "sell"
     IN reqs' = [reqs EXCEPT ![r] =
          IF body.tokens <= 0
            THEN Respond(route, 400, "Invalid token amount")
          ELSE IF ~isValidSolanaAddress(body.walletAddress)
            THEN Respond(route, 400, "Invalid wallet address")
          ELSE IF ~launch.exists
            THEN Respond(route, 404, "Launch not found")
          ELSE Awaiting(route, launch, body)]
  /\ UNCHANGED <<launches, vcall, curveVars, cacheVars>>

\* the whole row that was read is written back with the new volume
SellFinish_WritesRow(r, id) ==
  /\ reqs[r].pc = "awaiting"
  /\ reqs[r].route = "sell"
  /\ LET q == reqs[r]
     IN /\ launches' = updateLaunch(launches, id,
              [currentRaised |-> q.launch.currentRaised, status |-> q.launch.status,
               holders |-> q.launch.holders,
               volume24h |-> q.launch.volume24h + q.amount * UsdPerSol])
        /\ reqs' = [reqs EXCEPT ![r] = Applied(q.route, q.txSignature, q.amount, FALSE)]
  /\ UNCHANGED <<vcall, curveVars, cacheVars>>

\* /sell: the write and the response
SellFinish(r, id) ==
  /\ reqs[r].pc = "awaiting"
  /\ reqs[r].route = "sell"
  /\ LET q == reqs[r]
     IN /\ launches' = updateLaunch(launches, id,
              [volume24h |-> q.launch.volume24h + q.amount * UsdPerSol])
        /\ reqs' = [reqs EXCEPT ![r] = Applied(q.route, q.txSignature, q.amount, FALSE)]
  /\ UNCHANGED <<vcall, curveVars, cacheVars>>

(***************************************************************************)
(* The read-only routes: buy quote, sell quote and price.  Each reads the  *)
(* launch once and answers; amountIn keeps the amount of the request.  The *)
(* answer of a quote carries the launch values the quote is computed from. *)
(***************************************************************************)
QuoteAmounts == {-1, 0, 1, 200, 205}

QuoteAnswer(route, amount, code, err) ==
  [pc |-> "done", route |-> route, status |-> code, error |-> err, amountIn |-> amount]

Quoted(route, amount, launch) ==
  [pc |-> "done", route |-> route, status |-> 200, error |-> "", amountIn |-> amount,
   currentRaised |-> launch.currentRaised, targetRaised |-> launch.fundraisingTarget]

\* willGraduate is computed without the fee
BuyQuoted_IgnoresFee(solAmount, launch) ==
  LET currentRaised == Num(launch.currentRaised)
      targetRaised == Num(launch.fundraisingTarget)
  IN Quoted("quote-buy", solAmount, launch) @@
       [fee |-> BuyFee(Num(solAmount)).fee,
        willGraduate |-> Ge(Add(currentRaised, Num(solAmount)), targetRaised)]

\* the answer of quote/buy: of the quote of getBuyQuote its fee, which is
\* the fee of calculateBuyPrice, and willGraduate; the token amount and the
\* prices of the quote are those of getBuyQuote under CurveSpec
BuyQuoted(solAmount, launch) ==
  LET currentRaised == Num(launch.currentRaised)
      targetRaised == Num(launch.fundraisingTarget)
      fee == BuyFee(Num(solAmount)).fee
  IN Quoted("quote-buy", solAmount, launch) @@
       [fee |-> fee,
        willGraduate |-> Ge(Sub(Add(currentRaised, Num(solAmount)), fee), targetRaised)]

\* the quote also reserves the amount on the launch
BuyQuote_Reserves(r, id, solAmount) ==
  /\ CanStart(r)
  /\ LET launch == getLaunchById(launches, id)
         route == "quote-buy"
     IN IF solAmount > 0 /\ launch.exists /\ launch.status = "active"
        THEN /\ reqs' = [reqs EXCEPT ![r] = BuyQuoted(solAmount, launch)]
             /\ launches' = updateLaunch(launches, id,
                   [currentRaised |-> launch.currentRaised + solAmount])
        ELSE /\ reqs' = [reqs EXCEPT ![r] = QuoteAnswer(route, solAmount, 400, "rejected")]
             /\ UNCHANGED launches
  /\ UNCHANGED <<vcall, curveVars, cacheVars>>

\* POST /api/launches/:id/quote/buy
BuyQuote(r, id, solAmount) ==
  /\ CanStart(r)
  /\ LET launch == getLaunchById(launches, id)
         route == "quote-buy"
     IN reqs' = [reqs EXCEPT ![r] =
          IF solAmount <= 0
            THEN QuoteAnswer(route, solAmount, 400, "Invalid SOL amount")
          ELSE IF ~launch.exists
            THEN QuoteAnswer(route, solAmount, 404, "Launch not found")
          ELSE IF launch.status # "active"
            THEN QuoteAnswer(route, solAmount, 400, "Token has graduated or is not active")
          ELSE BuyQuoted(solAmount, launch)]
  /\ UNCHANGED <<launches, vcall, curveVars, cacheVars>>

\* the status of the launch is not looked at
SellQuote_NoStatusCheck(r, id, tokenAmount) ==
  /\ CanStart(r)
  /\ LET launch == getLaunchById(launches, id)
         route == "quote-sell"
     IN reqs' = [reqs EXCEPT ![r] =
          IF tokenAmount <= 0
            THEN QuoteAnswer(route, tokenAmount, 400, "Invalid token amount")
          ELSE IF ~launch.exists
            THEN QuoteAnswer(route, tokenAmount, 404, "Launch not found")
          ELSE Quoted(route, tokenAmount, launch)]
  /\ UNCHANGED <<launches, vcall, curveVars, cacheVars>>

\* POST /api/launches/:id/quote/sell
SellQuote(r, id, tokenAmount) ==
  /\ CanStart(r)
  /\ LET launch == getLaunchById(launches, id)
         route == "quote-sell"
     IN reqs' = [reqs EXCEPT ![r] =
          IF tokenAmount <= 0
            THEN QuoteAnswer(route, tokenAmount, 400, "Invalid token amount")
          ELSE IF ~launch.exists
            THEN QuoteAnswer(route, tokenAmount, 404, "Launch not found")
          ELSE IF launch.status # "active"
            THEN QuoteAnswer(route, tokenAmount, 400, "Token has graduated or is not active")
          ELSE Quoted(route, tokenAmount, launch)]
  /\ UNCHANGED <<launches, vcall, curveVars, cacheVars>>

\* GET /api/launches/:id/price
GetPrice(r, id) ==
  /\ CanStart(r)
  /\ LET launch == getLaunchById(launches, id)
         route == "price"
     IN reqs' = [reqs EXCEPT ![r] =
          IF ~launch.exists
            THEN Respond(route, 404, "Launch not found")
          ELSE [pc |-> "done", route |-> route, status |-> 200, error |-> "",
                currentRaised |-> launch.currentRaised,
                targetRaised |-> launch.fundraisingTarget,
                launchStatus |-> launch.status]]
  /\ UNCHANGED <<launches, vcall, curveVars, cacheVars>>

(***************************************************************************)
(* The server: every route of the launch ledger.                           *)
(***************************************************************************)
LaunchData ==
  [mintAddress : {M1}, creatorAddress : {W1}, status : Statuses,
   currentRaised : ClientRaised, fundraisingTarget : FundraisingTargets,
   totalSupply : {1000}, curveType : {"linear"}]

PatchBodies == {[status |-> "active"], [currentRaised |-> 0]}

\* the bodies of /buy and /sell, whose signature is only echoed
UnverifiedBodies == {b \in TradeBodies : b.txSignature = "sigUnknown" /\ b.amount # 1}

NoCall == [pc |-> "none"]

\* onChainPoolCache = new Map(): no entry for any mint
PoolMints == {M1, M2}
NoEntry == [present |-> FALSE]
EmptyCache == [m \in PoolMints |-> NoEntry]

\* no curve function and no pool read is under check, the cache is empty
NoCurveNoCache ==
  /\ qcall = NoCall
  /\ onChainPoolCache = EmptyCache
  /\ now = 0
  /\ pcall = NoCall

Init ==
  /\ launches = [id \in LaunchIds |-> NoLaunch]
  /\ reqs = [r \in Reqs |-> Idle]
  /\ vcall = NoCall
  /\ NoCurveNoCache

QuoteRoutes ==
  \/ \E r \in Reqs, id \in LaunchIds, solAmount \in QuoteAmounts : BuyQuote(r, id, solAmount)
  \/ \E r \in Reqs, id \in LaunchIds, tokenAmount \in QuoteAmounts : SellQuote(r, id, tokenAmount)
  \/ \E r \in Reqs, id \in LaunchIds : GetPrice(r, id)

ConfirmRoutes ==
  \/ \E data \in LaunchData, world \in CreationWorlds : ConfirmTransaction(data, world)
  \/ \E r \in Reqs, id \in LaunchIds, body \in TradeBodies : ConfirmBuyStart(r, id, body)
  \/ \E r \in Reqs, id \in LaunchIds, rpcThrows \in BOOLEAN : ConfirmBuyFinish(r, id, rpcThrows)
  \/ \E r \in Reqs, id \in LaunchIds, body \in TradeBodies : ConfirmSellStart(r, id, body)
  \/ \E r \in Reqs, id \in LaunchIds, rpcThrows \in BOOLEAN : ConfirmSellFinish(r, id, rpcThrows)

Next ==
  \/ ConfirmRoutes
  \/ \E data \in LaunchData : CreateLaunch(data)
  \/ \E id \in LaunchIds, body \in PatchBodies : PatchLaunch(id, body)
  \/ \E r \in Reqs, id \in LaunchIds, body \in UnverifiedBodies : BuyStart(r, id, body)
  \/ \E r \in Reqs, id \in LaunchIds : BuyFinish(r, id)
  \/ \E r \in Reqs, id \in LaunchIds, body \in UnverifiedBodies : SellStart(r, id, body)
  \/ \E r \in Reqs, id \in LaunchIds : SellFinish(r, id)
  \/ QuoteRoutes

Spec == Init /\ [][Next]_vars

\* the routes whose trades are verified against the chain
ConfirmSpec == Init /\ [][ConfirmRoutes]_vars

\* the routes that apply a sell, with the verified buys they interleave with
SellRoutes ==
  \/ ConfirmRoutes
  \/ \E r \in Reqs, id \in LaunchIds, body \in UnverifiedBodies : SellStart(r, id, body)
  \/ \E r \in Reqs, id \in LaunchIds : SellFinish(r, id)

SellSpec == Init /\ [][SellRoutes]_vars

\* the bodies of verified buys of a positive amount
PlainBuyBodies ==
  {b \in TradeBodies : /\ b.txSignature \in {"sigBuy200", "sigBuy205"}
                       /\ b.walletAddress = W1
                       /\ b.amount = 200
                       /\ b.tokens = 1}

\* the read-only routes next to the creation of launches of every status
\* and the verified buys
QuoteNext ==
  \/ QuoteRoutes
  \/ \E data \in LaunchData : CreateLaunch(data)
  \/ \E r \in Reqs, id \in LaunchIds, body \in PlainBuyBodies : ConfirmBuyStart(r, id, body)
  \/ \E r \in Reqs, id \in LaunchIds : ConfirmBuyFinish(r, id, FALSE)

QuoteSpec == Init /\ [][QuoteNext]_vars

(***************************************************************************)
(* The curve functions on their own: one call of getBuyQuote, of           *)
(* getSellQuote, or a pair of calls of getCurrentPrice, with any           *)
(* arguments of a launch whose target is positive and whose raised amount  *)
(* is not negative.                                                        *)
(***************************************************************************)
\* raised amounts from 0 to twice the target of 4, on and off the grid of
\* the power and logarithm tables
CurveRaised ==
  {Num(0), Rat(1, 2), Num(1), Num(2), Num(3), Num(4), Rat(9, 2), Num(6), Num(8)}
CurveTargets == {Num(4)}
CurveSupplies == {Num(10), Num(20)}
BuyAmounts == {Rat(1, 4), Num(1), Num(4), Num(8)}
SellAmounts == {Rat(1, 2), Num(1), Num(8), Num(9), Num(40)}

CurveCallOf(fn, amount, currentRaised, curveType, totalSupply, targetRaised) ==
  [pc |-> "call", fn |-> fn, amount |-> amount, currentRaised |-> currentRaised,
   curveType |-> curveType, totalSupply |-> totalSupply, targetRaised |-> targetRaised]

CurveInit ==
  /\ \E curveType \in CurveTypes, currentRaised \in CurveRaised,
        totalSupply \in CurveSupplies, targetRaised \in CurveTargets :
       \/ \E solAmount \in BuyAmounts :
            qcall = CurveCallOf("getBuyQuote", solAmount, currentRaised, curveType,
                                totalSupply, targetRaised)
       \/ \E tokenAmount \in SellAmounts :
            qcall = CurveCallOf("getSellQuote", tokenAmount, currentRaised, curveType,
                                totalSupply, targetRaised)
       \/ \E higherRaised \in {r \in CurveRaised : Lt(currentRaised, r)} :
            qcall = CurveCallOf("getCurrentPrice", higherRaised, currentRaised, curveType,
                                totalSupply, targetRaised)
  /\ launches = [id \in LaunchIds |-> NoLaunch]
  /\ reqs = [r \in Reqs |-> Idle]
  /\ vcall = NoCall
  /\ onChainPoolCache = EmptyCache
  /\ now = 0
  /\ pcall = NoCall

\* getBuyQuote, with the result of calculateBuyPrice it is built from
BuyQuoteCall ==
  /\ qcall.pc = "call"
  /\ qcall.fn = "getBuyQuote"
  /\ qcall' = [qcall EXCEPT !.pc = "returned"] @@
       [quote |-> getBuyQuote(qcall.amount, qcall.currentRaised, qcall.curveType,
                              qcall.totalSupply, qcall.targetRaised),
        charge |-> BuyFee(qcall.amount)]
  /\ UNCHANGED <<launches, reqs, vcall, cacheVars>>

\* getSellQuote, with the result of calculateSellPrice it is built from
SellQuoteCall ==
  /\ qcall.pc = "call"
  /\ qcall.fn = "getSellQuote"
  /\ qcall' = [qcall EXCEPT !.pc = "returned"] @@
       [quote |-> getSellQuote(qcall.amount, qcall.currentRaised, qcall.curveType,
                               qcall.totalSupply, qcall.targetRaised),
        sold |-> calculateSellPrice(qcall.currentRaised, qcall.amount, qcall.curveType,
                                    qcall.totalSupply, qcall.targetRaised)]
  /\ UNCHANGED <<launches, reqs, vcall, cacheVars>>

\* getCurrentPrice at currentRaised and at the higher raised amount, which
\* the call keeps in amount
PriceCall ==
  /\ qcall.pc = "call"
  /\ qcall.fn = "getCurrentPrice"
  /\ qcall' = [qcall EXCEPT !.pc = "returned"] @@
       [price |-> getCurrentPrice(qcall.currentRaised, qcall.curveType,
                                  qcall.totalSupply, qcall.targetRaised),
        higherPrice |-> getCurrentPrice(qcall.amount, qcall.curveType,
                                        qcall.totalSupply, qcall.targetRaised)]
  /\ UNCHANGED <<launches, reqs, vcall, cacheVars>>

CurveNext == BuyQuoteCall \/ SellQuoteCall \/ PriceCall

CurveSpec == CurveInit /\ [][CurveNext]_vars

(***************************************************************************)
(* fetchOnChainPoolState and its cache: callers that may overlap, a clock  *)
(* that advances between their steps, and a chain read that answers with   *)
(* no account, a trading pool, a graduated pool, or throws.                *)
(***************************************************************************)
CACHE_TTL_MS == 10000
MaxNow == 15000
ClockSteps == {4999, 5000}
PoolCallers == {1, 2}

\* what fetchOnChainPoolState returns and caches: the three pool states the
\* decoding tells apart, and null
PoolNoAccount == [exists |-> FALSE, status |-> "unknown"]
PoolTrading == [exists |-> TRUE, status |-> "trading"]
PoolGraduated == [exists |-> TRUE, status |-> "graduated"]
PoolNull == [null |-> TRUE]
ChainReads == {"none", "trading", "graduated", "throw"}

PoolStateOf(read) ==
  CASE read = "none" -> PoolNoAccount
    [] read = "trading" -> PoolTrading
    [] read = "graduated" -> PoolGraduated
    [] OTHER -> PoolNull

\* an entry that is served at its age of exactly the TTL
Fresh_Inclusive(cached) ==
  cached.present /\ now - cached.timestamp <= CACHE_TTL_MS

\* cached && Date.now() - cached.timestamp < CACHE_TTL_MS
Fresh(cached) ==
  cached.present /\ now - cached.timestamp < CACHE_TTL_MS

CacheInit ==
  /\ onChainPoolCache = EmptyCache
  /\ now = 0
  /\ pcall = [c \in PoolCallers |-> Idle]
  /\ launches = [id \in LaunchIds |-> NoLaunch]
  /\ reqs = [r \in Reqs |-> Idle]
  /\ vcall = NoCall
  /\ qcall = NoCall

\* time passes
Tick(d) ==
  /\ now + d <= MaxNow
  /\ now' = now + d
  /\ UNCHANGED <<launches, reqs, vcall, curveVars, onChainPoolCache, pcall>>

\* a call that finds a fresh entry returns its data
FetchCached(c, mintAddress) ==
  /\ pcall[c].pc = "idle"
  /\ Fresh(onChainPoolCache[mintAddress])
  /\ pcall' = [pcall EXCEPT ![c] =
        [pc |-> "returned", mint |-> mintAddress, chainRead |-> FALSE,
         data |-> onChainPoolCache[mintAddress].data]]
  /\ UNCHANGED <<launches, reqs, vcall, curveVars, onChainPoolCache, now>>

\* a call that finds no fresh entry awaits connection.getAccountInfo
FetchStart(c, mintAddress) ==
  /\ pcall[c].pc = "idle"
  /\ ~Fresh(onChainPoolCache[mintAddress])
  /\ pcall' = [pcall EXCEPT ![c] = [pc |-> "reading", mint |-> mintAddress]]
  /\ UNCHANGED <<launches, reqs, vcall, curveVars, onChainPoolCache, now>>

\* the read answers or throws: the result, or null, is cached with the time
\* of the answer and returned
FetchFinish(c, read) ==
  /\ pcall[c].pc = "reading"
  /\ LET result == PoolStateOf(read)
     IN /\ onChainPoolCache' = [onChainPoolCache EXCEPT ![pcall[c].mint] =
              [present |-> TRUE, data |-> result, timestamp |-> now]]
        /\ pcall' = [pcall EXCEPT ![c] =
              [pc |-> "returned", mint |-> pcall[c].mint, chainRead |-> TRUE,
               data |-> result]]
  /\ UNCHANGED <<launches, reqs, vcall, curveVars, now>>

\* the caller is done with the result and may call again
FetchForget(c) ==
  /\ pcall[c].pc = "returned"
  /\ pcall' = [pcall EXCEPT ![c] = Idle]
  /\ UNCHANGED <<launches, reqs, vcall, curveVars, onChainPoolCache, now>>

CacheNext ==
  \/ \E d \in ClockSteps : Tick(d)
  \/ \E c \in PoolCallers, mintAddress \in PoolMints : FetchCached(c, mintAddress)
  \/ \E c \in PoolCallers, mintAddress \in PoolMints : FetchStart(c, mintAddress)
  \/ \E c \in PoolCallers, read \in ChainReads : FetchFinish(c, read)
  \/ \E c \in PoolCallers : FetchForget(c)

CacheSpec == CacheInit /\ [][CacheNext]_vars

(***************************************************************************)
(* The verifier on its own: one call with any chain outcome and any        *)
(* parameters.                                                             *)
(***************************************************************************)
Call(rpc, p) == [pc |-> "call", rpc |-> rpc, params |-> p]

\* the chain read throws, finds nothing, or returns a transaction; one that
\* failed on chain changed no balance
VerifyInit ==
  /\ \E p \in ParamSpace :
       \/ \E r \in {[kind |-> "throw"], [kind |-> "null"]} : vcall = Call(r, p)
       \/ \E keys \in KeyLayouts, top \in SeqsUpTo(IxCatalogue, MaxIx),
             inner \in InnerGroups :
            \/ \E tok \in TokenBalancePairs, sol \in WalletBalancePairs :
                 vcall = Call([kind |-> "tx",
                               tx |-> ParsedTx(FALSE, keys, top, inner, tok, sol)], p)
            \/ vcall = Call([kind |-> "tx",
                             tx |-> ParsedTx(TRUE, keys, top, inner,
                                             <<0, 0>>, <<221, 221>>)], p)
  /\ launches = [id \in LaunchIds |-> NoLaunch]
  /\ reqs = [r \in Reqs |-> Idle]
  /\ NoCurveNoCache

VerifyCall ==
  /\ vcall.pc = "call"
  /\ vcall' = [pc |-> "returned", rpc |-> vcall.rpc, params |-> vcall.params,
               result |-> verifyTradeTransaction(vcall.rpc, vcall.params)]
  /\ UNCHANGED <<launches, reqs, curveVars, cacheVars>>

VerifyNext == VerifyCall

VerifySpec == VerifyInit /\ [][VerifyNext]_vars

(***************************************************************************)
(* Properties of the ledger routes (ConfirmSpec, Spec).                    *)
(***************************************************************************)
TheLaunch == launches["L1"]

\* request r applies a trade in this step: its handler writes the launch
\* and answers 200
Applies(r, route) ==
  /\ reqs[r].pc = "awaiting"
  /\ reqs[r].route = route
  /\ reqs'[r].pc = "done"
  /\ reqs'[r].status = 200

\* the wallet's native balance change in the transaction of a signature,
\* pre - post, as the chain records it
ChainSolSpent(signature, wallet) ==
  LET tx == getParsedTransaction(signature).tx
      i == CHOOSE k \in 1..Len(tx.accountKeys) : tx.accountKeys[k].pubkey = wallet
  IN tx.preBalances[i] - tx.postBalances[i]

\* the buys on the chain in which the wallet paid a positive amount
PlainBuys == {"sigBuy200", "sigBuy205"}

\* the requests in flight or applied are buys of distinct plain transactions
DistinctPlainBuys ==
  \A q \in Reqs :
    (reqs[q].pc = "awaiting" \/ (reqs[q].pc = "done" /\ reqs[q].status = 200)) =>
      /\ reqs[q].route = "confirm-buy"
      /\ reqs[q].txSignature \in PlainBuys
      /\ \A o \in Reqs \ {q} :
           (reqs[o].pc = "awaiting" \/ (reqs[o].pc = "done" /\ reqs[o].status = 200)) =>
             reqs[o].txSignature # reqs[q].txSignature

\* C1: concurrent confirm-buy applications serialize, so no buy's
\* contribution is lost: with distinct verified buys in flight, every buy
\* that is applied adds its resolved amount to the currentRaised that is
\* persisted when it writes, so that after two buys of a and b the value is
\* the initial one plus a plus b.
C1_ConcurrentBuysSerialize ==
  [][\A r \in Reqs :
       (Applies(r, "confirm-buy") /\ DistinctPlainBuys)
         => TheLaunch'.currentRaised = TheLaunch.currentRaised + reqs'[r].solAmount]_vars

\* C2: a verified buy never lowers currentRaised: a buy applied to the
\* launch it read (no other write in between) leaves currentRaised greater
\* than or equal to its value before.
C2_RaisedNonDecreasing ==
  [][\A r \in Reqs :
       (Applies(r, "confirm-buy") /\ reqs[r].launch = TheLaunch) =>
         TheLaunch'.currentRaised >= TheLaunch.currentRaised]_vars

\* C3: the status is one-way: once the persisted status is graduated, no
\* confirm-buy or confirm-sell writes it back to active.
C3_StatusOneWay ==
  [][(TheLaunch.exists /\ TheLaunch.status = "graduated") =>
       TheLaunch'.status = "graduated"]_vars

\* C4: every persisted launch has 0 <= currentRaised, and is graduated
\* exactly when currentRaised >= fundraisingTarget.
C4_LedgerInvariant ==
  TheLaunch.exists =>
    /\ TheLaunch.currentRaised >= 0
    /\ (TheLaunch.status = "graduated"
          <=> TheLaunch.currentRaised >= TheLaunch.fundraisingTarget)

\* C5: a successful confirm-buy raises currentRaised, over the value the
\* handler read, by exactly the wallet's SOL change on the chain, and never
\* by the amount the client claimed.
C5_AppliesChainAmount ==
  [][\A r \in Reqs :
       Applies(r, "confirm-buy") =>
         TheLaunch'.currentRaised =
           reqs[r].launch.currentRaised
             + ChainSolSpent(reqs[r].txSignature, reqs[r].walletAddress)]_vars

\* C6: a transaction signature is applied at most once: a request that
\* names a signature another request has already applied adds nothing to
\* currentRaised or to volume24h.
C6_SignatureAppliedOnce ==
  [][\A r \in Reqs :
       (/\ reqs[r].pc = "awaiting"
        /\ reqs'[r].pc = "done"
        /\ \E q \in Reqs : /\ q # r
                           /\ reqs[q].pc = "done" /\ reqs[q].status = 200
                           /\ reqs[q].txSignature = reqs[r].txSignature)
         => /\ TheLaunch'.currentRaised = TheLaunch.currentRaised
            /\ TheLaunch'.volume24h = TheLaunch.volume24h]_vars

\* C7: currentRaised and status of a launch change only in the step of a
\* confirm-buy whose verification against the chain returned valid.
C7_OnlyVerifiedTradesMutate ==
  [][(/\ TheLaunch.exists
      /\ \/ TheLaunch'.currentRaised # TheLaunch.currentRaised
         \/ TheLaunch'.status # TheLaunch.status)
       => \E r \in Reqs : Applies(r, "confirm-buy")]_vars

(***************************************************************************)
(* Properties of verifyTradeTransaction (VerifySpec).                      *)
(***************************************************************************)
Returned == vcall.pc = "returned"
ReturnedTx == Returned /\ vcall.rpc.kind = "tx"

WalletInKeys ==
  \E i \in 1..Len(vcall.rpc.tx.accountKeys) :
    vcall.rpc.tx.accountKeys[i].pubkey = vcall.params.expectedWallet

\* the wallet's native balance change, signed by the direction
ObservedSolDelta ==
  LET tx == vcall.rpc.tx
      i == CHOOSE k \in 1..Len(tx.accountKeys) :
             tx.accountKeys[k].pubkey = vcall.params.expectedWallet
  IN IF vcall.params.isBuy THEN tx.preBalances[i] - tx.postBalances[i]
     ELSE tx.postBalances[i] - tx.preBalances[i]

\* |observed - expected| <= expected * 0.05 + 0.001, in units
WithinTolerance ==
  20 * Abs(ObservedSolDelta - vcall.params.expectedSolAmount)
    <= vcall.params.expectedSolAmount + 200

\* the reasons of the checks that come before the amount check
EarlierReasons ==
  {ErrFailed, ErrNotSigner, ErrNoTransfer, ErrMint, ErrBuyDirection, ErrSellDirection}

\* C8: the verifier returns valid only if the observed SOL change is within
\* expected * 0.05 + 0.001 of the expected amount; a change outside the
\* tolerance is always rejected, with the amount-mismatch reason unless an
\* earlier check already rejected the transaction, and that reason is given
\* for nothing else.
C8_AmountWithinTolerance ==
  ReturnedTx =>
    /\ vcall.result.valid => (WalletInKeys /\ WithinTolerance)
    /\ (WalletInKeys /\ ~WithinTolerance) =>
         (~vcall.result.valid /\ vcall.result.error \in EarlierReasons \cup {ErrAmount})
    /\ (~vcall.result.valid /\ vcall.result.error \notin EarlierReasons) =>
         (vcall.result.error = ErrAmount /\ WalletInKeys /\ ~WithinTolerance)

\* a change of 221 against an expected 200 (one unit past the tolerance of
\* 20) is rejected as an amount mismatch
C8_Witness ==
  /\ ReturnedTx
  /\ ~vcall.result.valid
  /\ vcall.result.error = ErrAmount
  /\ vcall.params.expectedSolAmount = 200
  /\ ObservedSolDelta = 221

\* the change of the wallet's token account balance in the transaction: 0
\* when the transaction does not hold the account
ObservedTokenDelta ==
  LET tx == vcall.rpc.tx
      ata == getAssociatedTokenAddressSync(vcall.params.expectedMint,
                                           vcall.params.expectedWallet)
      Entry(bals, i) == IF \E k \in 1..Len(bals) : bals[k].accountIndex = i
                        THEN bals[CHOOSE k \in 1..Len(bals) : bals[k].accountIndex = i].uiAmount
                        ELSE 0
  IN IF \E i \in 1..Len(tx.accountKeys) : tx.accountKeys[i].pubkey = ata
     THEN LET i == CHOOSE k \in 1..Len(tx.accountKeys) : tx.accountKeys[k].pubkey = ata
          IN Entry(tx.postTokenBalances, i) - Entry(tx.preTokenBalances, i)
     ELSE 0

\* C9: every verification that returns valid saw the wallet's token balance
\* for the mint move in the direction of the trade: up for a buy, down for a
\* sell.
C9_TokenDirection ==
  (ReturnedTx /\ vcall.result.valid) =>
    IF vcall.params.isBuy THEN ObservedTokenDelta > 0 ELSE ObservedTokenDelta < 0

WalletSigned ==
  \E i \in 1..Len(vcall.rpc.tx.accountKeys) :
    /\ vcall.rpc.tx.accountKeys[i].pubkey = vcall.params.expectedWallet
    /\ vcall.rpc.tx.accountKeys[i].signer

\* C10: the verifier returns valid only if the expected wallet is among the
\* account keys with signer = true; a transaction that was found and did not
\* fail on chain, in which the wallet is absent or not a signer, is rejected
\* with the not-signer reason.
C10_ValidOnlySigner ==
  ReturnedTx =>
    /\ vcall.result.valid => WalletSigned
    /\ (~WalletSigned /\ ~vcall.rpc.tx.err) =>
         (~vcall.result.valid /\ vcall.result.error = ErrNotSigner)

\* the wallet is an account of the transaction but did not sign it
C10_Witness ==
  /\ ReturnedTx
  /\ WalletInKeys
  /\ ~WalletSigned
  /\ vcall.result = Invalid(ErrNotSigner)

\* the parsed spl-token instructions of the transaction, top-level or inner,
\* that move, mint or burn tokens
TokenMovingIxs ==
  LET all == vcall.rpc.tx.instructions \o Flatten(vcall.rpc.tx.innerInstructions)
  IN {all[i] : i \in {k \in 1..Len(all) :
        /\ all[k].program = "spl-token"
        /\ all[k].parsed
        /\ all[k].type \in {"transfer", "transferChecked", "mintTo", "burn", "burnChecked"}}}

\* the instruction names the expected mint or touches the wallet's
\* associated token account for it
ReferencesMint(ix) ==
  LET ata == getAssociatedTokenAddressSync(vcall.params.expectedMint,
                                           vcall.params.expectedWallet)
  IN \/ ix.mint = vcall.params.expectedMint
     \/ ix.source = ata
     \/ ix.destination = ata
     \/ ix.account = ata

\* C11: the verifier returns valid only if some top-level or inner
\* spl-token instruction of type transfer, transferChecked, mintTo, burn or
\* burnChecked names the expected mint or touches the wallet's associated
\* token account; of the transactions that pass the on-chain-error and
\* signer checks, one with no such token instruction is rejected as
\* no-transfer-found and one whose token instructions all miss the mint as
\* mint-mismatch, and these reasons are given for nothing else.
C11_TokenInstructionScan ==
  ReturnedTx =>
    LET passedEarlier == ~vcall.rpc.tx.err /\ WalletSigned
        referenced == \E ix \in TokenMovingIxs : ReferencesMint(ix)
    IN /\ vcall.result.valid => referenced
       /\ (passedEarlier /\ TokenMovingIxs = {}) <=> vcall.result = Invalid(ErrNoTransfer)
       /\ (passedEarlier /\ TokenMovingIxs # {} /\ ~referenced)
            <=> vcall.result = Invalid(ErrMint)

\* a transaction whose only token instruction is an inner transferChecked
\* of another mint is rejected as a mint mismatch
C11_Witness ==
  /\ ReturnedTx
  /\ vcall.rpc.tx.instructions = << >>
  /\ vcall.rpc.tx.innerInstructions = <<<<IxTransferCheckedM2>>>>
  /\ vcall.result = Invalid(ErrMint)

(***************************************************************************)
(* Rejections and state checks of the confirm routes (ConfirmSpec).        *)
(***************************************************************************)
\* request r is answered in this step
Answered(r) == reqs[r].pc # "done" /\ reqs'[r].pc = "done"

\* C12: fail closed: a confirm-buy or confirm-sell request that is rejected
\* (invalid input, unknown launch, non-active launch, verification invalid)
\* is answered with an error status and a reason, and the step leaves every
\* launch record as it was.
C12_FailClosed ==
  [][\A r \in Reqs :
       (Answered(r) /\ reqs'[r].status # 200) =>
         /\ reqs'[r].status \in {400, 404}
         /\ reqs'[r].error # ""
         /\ launches' = launches]_vars

\* a confirm-sell that failed verification against an existing launch
C12_Witness ==
  /\ TheLaunch.exists
  /\ \E r \in Reqs :
       /\ reqs[r].pc = "done"
       /\ reqs[r].route = "confirm-sell"
       /\ reqs[r].status = 400
       /\ reqs[r].error = "Transaction verification failed"

(***************************************************************************)
(* Chain read failures of verifyTradeTransaction (VerifySpec).             *)
(***************************************************************************)
\* C13: the verifier never returns valid when the chain read finds no
\* transaction, when the transaction's meta records an on-chain error, or
\* when the read throws: it returns valid = false with the reason of that
\* case (not found, failed on-chain, the thrown error).
C13_NoValidOnReadFailure ==
  Returned =>
    /\ vcall.rpc.kind = "null" => vcall.result = Invalid(ErrNotFound)
    /\ vcall.rpc.kind = "throw" => vcall.result = Invalid(ErrThrown)
    /\ (vcall.rpc.kind = "tx" /\ vcall.rpc.tx.err) => vcall.result = Invalid(ErrFailed)
    /\ ~vcall.result.valid => vcall.result.error # ""

\* a transaction that failed on chain, signed by the wallet, with a token
\* instruction of the mint and balances that would pass every later check
C13_Witness ==
  /\ ReturnedTx
  /\ vcall.rpc.tx.err
  /\ WalletSigned
  /\ vcall.rpc.tx.instructions = <<IxTransferCheckedM1>>
  /\ vcall.params.expectedSolAmount = 1
  /\ vcall.result = Invalid(ErrFailed)

(***************************************************************************)
(* State checks of the trade routes (ConfirmSpec).                         *)
(***************************************************************************)
\* C15: a buy is never applied to a launch that is already graduated: a
\* confirm-buy whose write is reached while the persisted status is
\* graduated is rejected and changes neither currentRaised nor status
\* (stated for requests that name distinct buys of a positive amount).
C15_NoBuyOnGraduated ==
  [][\A r \in Reqs :
       (/\ reqs[r].pc = "awaiting"
        /\ reqs[r].route = "confirm-buy"
        /\ DistinctPlainBuys
        /\ Answered(r)
        /\ TheLaunch.status = "graduated")
         => /\ reqs'[r].status # 200
            /\ TheLaunch'.currentRaised = TheLaunch.currentRaised
            /\ TheLaunch'.status = TheLaunch.status]_vars

\* C16: a trade against a launch that is not active is rejected with 400:
\* a confirm-buy or confirm-sell whose handler read a graduated or failed
\* launch answers 400 and writes nothing to the launch.
C16_NonActiveRejected ==
  [][\A r \in Reqs :
       (/\ reqs[r].pc = "awaiting"
        /\ reqs[r].route \in {"confirm-buy", "confirm-sell"}
        /\ Answered(r)
        /\ reqs[r].launch.status # "active")
         => /\ reqs'[r].status = 400
            /\ launches' = launches]_vars

(***************************************************************************)
(* Sells (SellSpec).                                                       *)
(***************************************************************************)
\* C17: applying a sell, by confirm-sell or by /sell, leaves currentRaised
\* and status as they are persisted; the only field of the launch it writes
\* is volume24h.
C17_SellWritesOnlyVolume ==
  [][\A r \in Reqs :
       (Applies(r, "confirm-sell") \/ Applies(r, "sell")) =>
         \A f \in DOMAIN TheLaunch \ {"volume24h"} : TheLaunch'[f] = TheLaunch[f]]_vars

\* a /sell applied after a buy was applied between its read and its write
C17_Witness ==
  /\ TheLaunch.exists
  /\ TheLaunch.currentRaised = 200
  /\ \E r, q \in Reqs :
       /\ reqs[r].pc = "done" /\ reqs[r].route = "sell" /\ reqs[r].status = 200
       /\ reqs[q].pc = "done" /\ reqs[q].route = "confirm-buy" /\ reqs[q].status = 200
       /\ TheLaunch.volume24h = 200 * UsdPerSol

(***************************************************************************)
(* Creation of a launch (Spec).                                            *)
(***************************************************************************)
\* C18: a launch record is persisted only after token-creation
\* verification succeeded: every step that creates a launch is a step of
\* /api/transactions/confirm whose creation transaction was confirmed and
\* for which verifyTokenCreation returned valid for the claimed mint and
\* creator.
C18_CreatedOnlyWhenVerified ==
  [][(~TheLaunch.exists /\ TheLaunch'.exists) =>
       \E data \in LaunchData, world \in CreationWorlds :
         ConfirmTransaction(data, world)]_vars

(***************************************************************************)
(* The read-only routes (QuoteSpec).                                       *)
(***************************************************************************)
QuoteRouteNames == {"quote-buy", "quote-sell"}

\* C19: the buy-quote and sell-quote endpoints reject an amount <= 0 with
\* 400, an unknown launch id with 404 and a launch that is not active
\* (graduated or failed) with 400; a quote is returned exactly for an
\* amount > 0 on an existing active launch.
C19_QuoteRejections ==
  [][\A r \in Reqs :
       (Answered(r) /\ reqs'[r].route \in QuoteRouteNames) =>
         LET a == reqs'[r].amountIn
             answer == reqs'[r]
         IN /\ a <= 0 => answer.status = 400
            /\ (a > 0 /\ ~TheLaunch.exists) => answer.status = 404
            /\ (a > 0 /\ TheLaunch.exists /\ TheLaunch.status # "active")
                 => answer.status = 400
            /\ answer.status = 200 <=>
                 (a > 0 /\ TheLaunch.exists /\ TheLaunch.status = "active")
            /\ answer.status # 200 => answer.error # ""
            /\ answer.status = 200 => answer.currentRaised = TheLaunch.currentRaised]_vars

\* a sell quote of a positive amount refused on a launch that a verified
\* buy has graduated
C19_Witness ==
  /\ TheLaunch.exists
  /\ TheLaunch.status = "graduated"
  /\ \E r, q \in Reqs :
       /\ reqs[q].pc = "done" /\ reqs[q].route = "confirm-buy" /\ reqs[q].status = 200
       /\ reqs[r].pc = "done" /\ reqs[r].route = "quote-sell"
       /\ reqs[r].amountIn = 200
       /\ reqs[r].status = 400
       /\ reqs[r].error = "Token has graduated or is not active"

\* C20: quote and price requests have no side effects: a step that answers
\* a buy-quote, sell-quote or price request, with a quote or with an error,
\* leaves every launch record and every other request as they were, so the
\* buys they interleave with read and write the same ledger.
C20_QuotesReadOnly ==
  [][\A r \in Reqs :
       (Answered(r) /\ reqs'[r].route \in QuoteRouteNames \cup {"price"}) =>
         /\ launches' = launches
         /\ \A q \in Reqs \ {r} : reqs'[q] = reqs[q]]_vars

\* a buy quote answered between the read and the write of a verified buy
\* that was then applied in full
C20_Witness ==
  /\ TheLaunch.exists
  /\ TheLaunch.currentRaised = 200
  /\ reqs[1].pc = "done" /\ reqs[1].route = "confirm-buy" /\ reqs[1].status = 200
  /\ reqs[2].pc = "done" /\ reqs[2].route = "quote-buy" /\ reqs[2].status = 200
  /\ reqs[2].currentRaised = 0

(***************************************************************************)
(* Claims about the curve functions, checked under CurveSpec.              *)
(***************************************************************************)
BuyReturned == qcall.pc = "returned" /\ qcall.fn = "getBuyQuote"
SellReturned == qcall.pc = "returned" /\ qcall.fn = "getSellQuote"
PriceReturned == qcall.pc = "returned" /\ qcall.fn = "getCurrentPrice"

\* tokensAvailable - tokensSoldSoFar of the launch the call is about
TokensRemaining ==
  LET tokensAvailable == Mul(Rat(4, 5), qcall.totalSupply)
  IN Sub(tokensAvailable,
         Div(Mul(tokensAvailable, qcall.currentRaised), qcall.targetRaised))

\* C22: a buy quote for a positive solAmount on a launch whose curve is not
\* exhausted (currentRaised < fundraisingTarget, totalSupply > 0) has an
\* amountOut strictly greater than 0.
C22_PositiveAmountOut ==
  (/\ BuyReturned
   /\ Lt(Num(0), qcall.amount)
   /\ Lt(qcall.currentRaised, qcall.targetRaised)
   /\ Lt(Num(0), qcall.totalSupply))
    => Lt(Num(0), qcall.quote.amountOut)

\* C23: a buy quote never grants more tokens than remain on the curve:
\* amountOut <= tokensAvailable - tokensSoldSoFar, with tokensAvailable =
\* 0.8 * totalSupply and tokensSoldSoFar = tokensAvailable * currentRaised /
\* fundraisingTarget.
C23_AtMostRemaining ==
  BuyReturned => Le(qcall.quote.amountOut, TokensRemaining)

\* a payment of 4 at three quarters of the target, which pays for more than
\* the 2 tokens that remain, is granted exactly those 2
C23_Witness ==
  /\ BuyReturned
  /\ qcall.curveType = "linear"
  /\ qcall.totalSupply = Num(10)
  /\ qcall.currentRaised = Num(3)
  /\ qcall.amount = Num(4)
  /\ TokensRemaining = Num(2)
  /\ qcall.quote.amountOut = Num(2)

\* C24: a sell quote never extracts more SOL than the curve holds: for every
\* tokenAmount > 0 and every ledger state with currentRaised >= 0, the gross
\* SOL, amountOut + fee, is at most currentRaised.
C24_GrossAtMostRaised ==
  (SellReturned /\ Lt(Num(0), qcall.amount) /\ Le(Num(0), qcall.currentRaised))
    => Le(Add(qcall.quote.amountOut, qcall.quote.fee), qcall.currentRaised)

\* C25: fee conservation on buy: for every solAmount > 0 the quoted fee is
\* solAmount * 0.0025 and the fee plus the net amount added to the curve
\* equals solAmount.
C25_FeeConservation ==
  (BuyReturned /\ Lt(Num(0), qcall.amount)) =>
    /\ qcall.quote.fee = Mul(qcall.amount, Rat(25, 10000))
    /\ Add(qcall.quote.fee, qcall.charge.netSolAmount) = qcall.amount

\* a payment of 4 is quoted with a fee of 0.01 and adds 3.99 to the curve
C25_Witness ==
  /\ BuyReturned
  /\ qcall.amount = Num(4)
  /\ qcall.quote.fee = Rat(1, 100)
  /\ qcall.charge.netSolAmount = Rat(399, 100)

\* C26: the price is monotonic in progress: for the linear, exponential and
\* logarithmic curves and raised amounts r1 < r2 between 0 and twice the
\* target, getCurrentPrice at r2 is at least getCurrentPrice at r1.
C26_PriceMonotonic ==
  (/\ PriceReturned
   /\ Le(Num(0), qcall.currentRaised)
   /\ Lt(qcall.currentRaised, qcall.amount)
   /\ Le(qcall.amount, Mul(Num(2), qcall.targetRaised)))
    => Ge(qcall.higherPrice, qcall.price)

\* the exponential price of a supply of 10 with target 4 is 0.5 at progress 0
\* and nine times that at progress 2
C26_Witness ==
  /\ PriceReturned
  /\ qcall.curveType = "exponential"
  /\ qcall.totalSupply = Num(10)
  /\ qcall.currentRaised = Num(0)
  /\ qcall.amount = Num(8)
  /\ qcall.price = Rat(1, 2)
  /\ qcall.higherPrice = Rat(9, 2)

\* netS / ((priceStart + priceEnd) / 2) clamped to the tokens remaining, with
\* the prices those of getCurrentPrice
TrapezoidClamped ==
  With(Sub(qcall.amount, Mul(qcall.amount, Rat(25, 10000))), LAMBDA netS :
  With(getCurrentPrice(qcall.currentRaised, qcall.curveType,
                       qcall.totalSupply, qcall.targetRaised), LAMBDA priceStart :
  With(getCurrentPrice(Add(qcall.currentRaised, netS), qcall.curveType,
                       qcall.totalSupply, qcall.targetRaised), LAMBDA priceEnd :
    MathMin(Div(netS, Div(Add(priceStart, priceEnd), Num(2))), TokensRemaining))))

\* C27: the buy quote's amountOut is the trapezoid formula, netS / ((priceStart
\* + priceEnd) / 2) clamped to the tokens remaining, to within 0.1% of that
\* closed form.
C27_TrapezoidFormula ==
  BuyReturned =>
    Le(Mul(MathAbs(Sub(qcall.quote.amountOut, TrapezoidClamped)), Num(1000)),
       MathAbs(TrapezoidClamped))

\* C30: a sell quote's fee is never negative: for every tokenAmount > 0,
\* including amounts larger than the tokens sold so far, and every
\* currentRaised >= 0, calculateSellPrice returns fee >= 0.
C30_SellFeeNotNegative ==
  (SellReturned /\ Lt(Num(0), qcall.amount) /\ Le(Num(0), qcall.currentRaised))
    => Ge(qcall.sold.fee, Num(0))

\* C21: every buy quote returned has willGraduate true exactly when
\* currentRaised + solAmount - fee >= fundraisingTarget, with fee = solAmount
\* * 0.0025; in particular a buy quote returned while currentRaised >=
\* fundraisingTarget reports willGraduate = true.
C21_WillGraduate ==
  \A r \in Reqs :
    (reqs[r].pc = "done" /\ reqs[r].route = "quote-buy" /\ reqs[r].status = 200) =>
      /\ reqs[r].fee = Mul(Num(reqs[r].amountIn), Rat(25, 10000))
      /\ reqs[r].willGraduate <=>
           400 * (reqs[r].currentRaised + reqs[r].amountIn) - reqs[r].amountIn
             >= 400 * reqs[r].targetRaised
      /\ reqs[r].currentRaised >= reqs[r].targetRaised => reqs[r].willGraduate

\* a buy quote on an active launch that has already raised its target says
\* it will graduate
C21_Witness ==
  /\ TheLaunch.exists /\ TheLaunch.status = "active"
  /\ TheLaunch.currentRaised = 205 /\ TheLaunch.fundraisingTarget = 205
  /\ reqs[1].pc = "done" /\ reqs[1].route = "quote-buy" /\ reqs[1].status = 200
  /\ reqs[1].amountIn = 1 /\ reqs[1].currentRaised = 205
  /\ reqs[1].fee = Rat(1, 400) /\ reqs[1].willGraduate

\* the wallet's associated token account is among the account keys
AtaInKeys ==
  \E i \in 1..Len(vcall.rpc.tx.accountKeys) :
    vcall.rpc.tx.accountKeys[i].pubkey =
      getAssociatedTokenAddressSync(vcall.params.expectedMint, vcall.params.expectedWallet)

\* the checks of a transaction that was found, in the order of the claim:
\* on-chain error, signer, token transfer, mint, direction of the token
\* balance (of a token account the transaction holds), SOL amount
CheckFails ==
  <<vcall.rpc.tx.err,
    ~WalletSigned,
    TokenMovingIxs = {},
    ~\E ix \in TokenMovingIxs : ReferencesMint(ix),
    AtaInKeys /\ (IF vcall.params.isBuy THEN ObservedTokenDelta <= 0
                  ELSE ObservedTokenDelta >= 0),
    WalletInKeys /\ ~WithinTolerance>>

CheckReasons ==
  <<ErrFailed, ErrNotSigner, ErrNoTransfer, ErrMint,
    IF vcall.params.isBuy THEN ErrBuyDirection ELSE ErrSellDirection,
    ErrAmount>>

\* C28: verifyTradeTransaction applies its checks in a fixed order and
\* reports the first one that fails: transaction absent, then on-chain
\* error, wallet not a signer, no token transfer, mint not referenced,
\* token balance direction, SOL amount tolerance; a transaction failing
\* several checks is reported with the earliest reason in this order, and one
\* failing none is valid.
C28_FirstFailingCheck ==
  /\ (Returned /\ vcall.rpc.kind = "null") => vcall.result = Invalid(ErrNotFound)
  /\ ReturnedTx =>
       LET failed == {i \in 1..6 : CheckFails[i]}
       IN IF failed = {} THEN vcall.result.valid
          ELSE vcall.result =
                 Invalid(CheckReasons[CHOOSE i \in failed : \A j \in failed : i <= j])

\* a buy whose token balance went down and whose SOL amount is far from the
\* expected one is reported as a wrong direction, not as an amount mismatch
C28_Witness ==
  /\ ReturnedTx
  /\ vcall.params.isBuy
  /\ {i \in 1..6 : CheckFails[i]} = {5, 6}
  /\ vcall.result = Invalid(ErrBuyDirection)

\* C29: fetchOnChainPoolState never serves a cache entry whose age is
\* 10000 ms or more: a call returns without a chain read only the data of an
\* entry for its mint that is younger than the TTL, and leaves the cache as
\* it is; a call starts a chain read only when there is no such entry; and
\* when the read ends the entry of the mint is replaced by the result, null
\* for a failed read, with the time of that moment, and the result returned.
C29_CacheTtl ==
  [][\A c \in PoolCallers :
       /\ (pcall[c].pc = "idle" /\ pcall'[c].pc = "returned") =>
            LET cached == onChainPoolCache[pcall'[c].mint]
            IN /\ cached.present
               /\ now - cached.timestamp < 10000
               /\ pcall'[c].data = cached.data
               /\ onChainPoolCache' = onChainPoolCache
       /\ (pcall[c].pc = "idle" /\ pcall'[c].pc = "reading") =>
            LET cached == onChainPoolCache[pcall'[c].mint]
            IN ~cached.present \/ now - cached.timestamp >= 10000
       /\ (pcall[c].pc = "reading" /\ pcall'[c].pc = "returned") =>
            /\ pcall'[c].mint = pcall[c].mint
            /\ onChainPoolCache' = [onChainPoolCache EXCEPT ![pcall[c].mint] =
                  [present |-> TRUE, data |-> pcall'[c].data, timestamp |-> now]]]_vars

\* a failed read was cached as null, a second call 9999 ms later was served
\* that null without a read, and a third call at 10000 ms is reading the
\* chain again
C29_Witness ==
  /\ onChainPoolCache[M1] = [present |-> TRUE, data |-> PoolNull, timestamp |-> 0]
  /\ now = 10000
  /\ pcall[1] = [pc |-> "returned", mint |-> M1, chainRead |-> FALSE, data |-> PoolNull]
  /\ pcall[2] = [pc |-> "reading", mint |-> M1]

====
